---------------------------- MODULE Spec2Model ----------------------------
(***************************************************************************)
(* A model of the React hook useFulfillListing (src/unnamed/part_000).     *)
(*                                                                         *)
(* One hook instance owns the pair (status, stepStatus).  Its trigger      *)
(* function fulfillListing is an async function: the code between two      *)
(* awaits runs to completion on the single JavaScript thread, so every     *)
(* action below is one such run-to-completion block, with the state        *)
(* setters of the block applied together (React batches the setters of     *)
(* one synchronous block into one render).  The two external calls,        *)
(* approveERC20 and fulfillListingCore, are promises that the environment  *)
(* settles (resolves or rejects) at any later time, or never.              *)
(*                                                                         *)
(* Nothing in the hook prevents fulfillListing from being invoked again,   *)
(* after or during an earlier invocation, so the model holds               *)
(* MaxInvocations invocations of the one hook instance.                    *)
(***************************************************************************)
EXTENDS Integers, Sequences, FiniteSets, TLC

MaxInvocations == 2

Invocations == 1..MaxInvocations

(***************************************************************************)
(* JavaScript values.                                                      *)
(*                                                                         *)
(* A currency address is a BigNumberish or undefined: [t, v] with t the    *)
(* JavaScript type and v the text of the value.                            *)
(*                                                                         *)
(* An amount is an integer 0 <= n < 2^54 held in two limbs of 27 bits,     *)
(* n = hi * 2^27 + lo, with t the JavaScript type ("bigint" or "number").  *)
(***************************************************************************)
Undefined == [t |-> "undefined", v |-> ""]

Str(s) == [t |-> "string", v |-> s]

Limb == 2^27

Amount(type, h, l) == [t |-> type, hi |-> h, lo |-> l]

NoAmount == Amount("undefined", 0, 0)

NaN == Amount("NaN", 0, 0)

\* 2^53 = 2^26 * 2^27: the first integer whose successor is not a double.
TwoTo53Hi == 2^26


(***************************************************************************)
(* Number(value) of ECMAScript on the amounts of the model: a number is    *)
(* returned as it is; a bigint becomes the nearest double, ties to the     *)
(* even mantissa.  Below 2^53 every integer is a double.  In 2^53 .. 2^54  *)
(* the doubles are the even integers, so an odd n lies halfway between     *)
(* n - 1 and n + 1 and goes to the multiple of 4.                          *)
(***************************************************************************)
Number(x) ==
    IF x.t = "number" THEN x
    ELSE IF x.t = "bigint" THEN
        IF x.hi < TwoTo53Hi \/ x.lo % 2 = 0 THEN Amount("number", x.hi, x.lo)
        ELSE IF x.lo % 4 = 1 THEN Amount("number", x.hi, x.lo - 1)
        ELSE IF x.lo + 1 = Limb THEN Amount("number", x.hi + 1, 0)
        ELSE Amount("number", x.hi, x.lo + 1)
    ELSE NaN

\* ToBoolean of a currency address, as the || operator applies it.
ToBoolean(x) ==
    CASE x.t = "undefined" -> FALSE
      [] x.t = "string" -> x.v # ""
      [] x.t \in {"number", "bigint"} -> x.v # "0"

\* a || b
Or(a, b) == IF ToBoolean(a) THEN a ELSE b

\* config?.starknetContracts.eth
ConfigEth(cfg) == IF cfg.defined THEN cfg.starknetContracts.eth ELSE Undefined

(***************************************************************************)
(* The inputs.                                                             *)
(***************************************************************************)
EthAddress == Str("0x049d36570d4e46f48e99674bd3fcc84644ddd6b96f7c741b1562b82f9e004dc7")

StrkAddress == Str("0x04718f5a0fc34cc1af16a1cdee98ffb20c31f5cd61d6ab07201858f4287c938d")

Configs ==
    { [defined |-> TRUE, starknetContracts |-> [eth |-> EthAddress]],
      [defined |-> FALSE, starknetContracts |-> [eth |-> Undefined]] }

\* omitted, supplied but falsy (the empty string), supplied
CurrencyAddresses == {Undefined, Str(""), StrkAddress}

\* 1 as a number; 2^53 - 1, 2^53 + 1 and 2^53 + 3 as bigints
One == Amount("number", 0, 1)

MaxSafeInteger == Amount("bigint", TwoTo53Hi - 1, Limb - 1)

TwoTo53Plus1 == Amount("bigint", TwoTo53Hi, 1)

TwoTo53Plus3 == Amount("bigint", TwoTo53Hi, 3)

StartAmounts == {One, MaxSafeInteger, TwoTo53Plus1, TwoTo53Plus3}

Params(amount, currency) ==
    [ starknetAccount |-> "account",
      startAmount |-> amount,
      currencyAddress |-> currency,
      orderHash |-> "orderHash",
      tokenAddress |-> "tokenAddress",
      tokenId |-> "tokenId",
      brokerId |-> "brokerId" ]

\* every currency with an amount that is a double and with one that is not
Parameters ==
    { Params(One, Undefined), Params(TwoTo53Plus1, Undefined),
      Params(MaxSafeInteger, Str("")), Params(TwoTo53Plus3, Str("")),
      Params(One, StrkAddress), Params(TwoTo53Plus1, StrkAddress) }

NoParameters ==
    [ starknetAccount |-> "", startAmount |-> NoAmount,
      currencyAddress |-> Undefined, orderHash |-> "", tokenAddress |-> "",
      tokenId |-> "", brokerId |-> "" ]

NoApproveArgs ==
    [ starknetAccount |-> "", startAmount |-> NoAmount,
      currencyAddress |-> Undefined ]

NoFulfillArgs ==
    [ config |-> [defined |-> FALSE, starknetContracts |-> [eth |-> Undefined]],
      starknetAccount |-> "",
      fulfillListingInfo |->
          [orderHash |-> "", tokenAddress |-> "", tokenId |-> "", brokerId |-> ""],
      approveInfo |-> [currencyAddress |-> Undefined, amount |-> NoAmount] ]

VARIABLES
    status,        \* useState<Status>
    stepStatus,    \* useState<StepStatus>
    arkAccount,    \* useBurnerWallet(): TRUE when a wallet is present
    config,        \* useConfig()
    pc,            \* where each invocation of fulfillListing stands
    parameters,    \* the argument of each invocation that entered the try block
    thrown,        \* the error an invocation rejected with, "" when none
    approveState,  \* the promise of approveERC20 of each invocation
    approveArgs,   \* the argument approveERC20 was called with
    fulfillState,  \* the promise of fulfillListingCore of each invocation
    fulfillArgs,   \* the arguments fulfillListingCore was called with
    issued,        \* the external calls each invocation issued, in order
    logged,        \* what each invocation passed to console.error
    writes,        \* history: the (status, stepStatus) each invocation wrote
    observed,      \* history: (status, stepStatus) when the invocation ended
    overlapped,    \* history: another invocation was in flight during this one
    deploy         \* one run of declareDeploy (scripts/deployer/contracts/orderbook.js)

vars ==
    << status, stepStatus, arkAccount, config, pc, parameters, thrown,
       approveState, approveArgs, fulfillState, fulfillArgs, issued, logged,
       writes, observed, overlapped, deploy >>

Pair == << status, stepStatus >>

InFlight(i) == pc[i] \in {"approveERC20", "fulfillListingCore"}

(***************************************************************************)
(* The values of declareDeploy.  A blob is a part of a compiled contract,  *)
(* named by the directory and the contract it was loaded from.             *)
(***************************************************************************)
Blob(path, name, part) == [path |-> path, name |-> name, part |-> part]

NoBlob == Blob("", "", "")

NoArtifacts == [sierra |-> [abi |-> NoBlob, program |-> NoBlob], casm |-> NoBlob]

NoDeployR ==
    [declare |-> [class_hash |-> ""], deploy |-> [contract_address |-> ""]]

NoContract == [abi |-> NoBlob, address |-> "", providerOrAccount |-> ""]

NoArgs ==
    [artifacts_path |-> "", account |-> "", provider |-> "",
     constructorData |-> [admin |-> ""]]

\* declareDeploy has not been called
NotCalled ==
    [ pc |-> "idle",
      args |-> NoArgs,
      artifacts |-> NoArtifacts,
      contractConstructor |-> << >>,
      requests |-> << >>,
      deployState |-> "none",
      deployR |-> NoDeployR,
      contract |-> NoContract,
      thrown |-> "",
      steps |-> << >> ]

Init ==
    /\ deploy = NotCalled
    /\ status = "idle"
    /\ stepStatus = "idle"
    /\ arkAccount \in BOOLEAN
    /\ config \in Configs
    /\ pc = [i \in Invocations |-> "idle"]
    /\ parameters = [i \in Invocations |-> NoParameters]
    /\ thrown = [i \in Invocations |-> ""]
    /\ approveState = [i \in Invocations |-> "none"]
    /\ approveArgs = [i \in Invocations |-> NoApproveArgs]
    /\ fulfillState = [i \in Invocations |-> "none"]
    /\ fulfillArgs = [i \in Invocations |-> NoFulfillArgs]
    /\ issued = [i \in Invocations |-> << >>]
    /\ logged = [i \in Invocations |-> ""]
    /\ writes = [i \in Invocations |-> << >>]
    /\ observed = [i \in Invocations |-> << "", "" >>]
    /\ overlapped = [i \in Invocations |-> FALSE]

(***************************************************************************)
(* The arguments of the two external calls.                                *)
(***************************************************************************)
\* an approval that passes parameters.currencyAddress without the default
ApproveERC20ArgsNoDefault(p, cfg) ==
    [ starknetAccount |-> p.starknetAccount,
      startAmount |-> Number(p.startAmount),
      currencyAddress |-> p.currencyAddress ]

\* lines 33-38: the object passed to approveERC20
ApproveERC20Args(p, cfg) ==
    [ starknetAccount |-> p.starknetAccount,
      startAmount |-> Number(p.startAmount),
      currencyAddress |-> Or(p.currencyAddress, ConfigEth(cfg)) ]

\* lines 40-53: config and the object passed to fulfillListingCore
FulfillListingCoreArgs(p, cfg) ==
    [ config |-> cfg,
      starknetAccount |-> p.starknetAccount,
      fulfillListingInfo |->
          [ orderHash |-> p.orderHash, tokenAddress |-> p.tokenAddress,
            tokenId |-> p.tokenId, brokerId |-> p.brokerId ],
      approveInfo |->
          [ currencyAddress |-> Or(p.currencyAddress, ConfigEth(cfg)),
            amount |-> p.startAmount ] ]

\* one call of the two state setters: "" stands for a setter that is not called
Write(st, step) == [status |-> st, stepStatus |-> step]

Others(i) == Invocations \ {i}

(***************************************************************************)
(* fulfillListing(parameters), up to its first await.  Without a wallet    *)
(* the async function throws before the try block: its promise rejects     *)
(* and nothing else happens.  With a wallet it sets loading/approving and  *)
(* calls approveERC20.                                                     *)
(***************************************************************************)
\* a wallet check that never fires
WalletNeverMissing == FALSE

\* line 29: !arkAccount
NoWallet == ~arkAccount

\* a wallet check inside the try block: the catch block sets error/error
NoBurnerWalletCaught(i, p) ==
    /\ NoWallet
    /\ pc' = [pc EXCEPT ![i] = "threw"]
    /\ thrown' = [thrown EXCEPT ![i] = "No burner wallet."]
    /\ status' = "error"
    /\ stepStatus' = "error"
    /\ observed' = [observed EXCEPT ![i] = << status', stepStatus' >>]
    /\ UNCHANGED << parameters, approveState, approveArgs, fulfillState,
                    fulfillArgs, issued, writes, overlapped >>

NoBurnerWallet(i, p) ==
    /\ NoWallet
    /\ pc' = [pc EXCEPT ![i] = "threw"]
    /\ thrown' = [thrown EXCEPT ![i] = "No burner wallet."]
    /\ observed' = [observed EXCEPT ![i] = Pair]
    /\ UNCHANGED << status, stepStatus, parameters, approveState, approveArgs,
                    fulfillState, fulfillArgs, issued, writes, overlapped >>

\* an entry block that starts both external calls together
CallBothAtOnce(i, p) ==
    /\ ~NoWallet
    /\ parameters' = [parameters EXCEPT ![i] = p]
    /\ status' = "loading"
    /\ stepStatus' = "approving"
    /\ approveArgs' = [approveArgs EXCEPT ![i] = ApproveERC20Args(p, config)]
    /\ approveState' = [approveState EXCEPT ![i] = "pending"]
    /\ fulfillArgs' = [fulfillArgs EXCEPT ![i] = FulfillListingCoreArgs(p, config)]
    /\ fulfillState' = [fulfillState EXCEPT ![i] = "pending"]
    /\ issued' = [issued EXCEPT ![i] = << "approveERC20", "fulfillListingCore" >>]
    /\ pc' = [pc EXCEPT ![i] = "fulfillListingCore"]
    /\ writes' = [writes EXCEPT ![i] = Append(@, Write("loading", "approving"))]
    /\ overlapped' =
           [j \in Invocations |->
               IF j = i THEN \E k \in Others(i) : InFlight(k)
               ELSE overlapped[j] \/ InFlight(j)]
    /\ UNCHANGED << thrown, observed >>

\* an entry block that forgets setStepStatus("approving")
CallApproveERC20NoApproving(i, p) ==
    /\ ~NoWallet
    /\ parameters' = [parameters EXCEPT ![i] = p]
    /\ status' = "loading"
    /\ approveArgs' = [approveArgs EXCEPT ![i] = ApproveERC20Args(p, config)]
    /\ approveState' = [approveState EXCEPT ![i] = "pending"]
    /\ issued' = [issued EXCEPT ![i] = Append(@, "approveERC20")]
    /\ pc' = [pc EXCEPT ![i] = "approveERC20"]
    /\ writes' = [writes EXCEPT ![i] = Append(@, Write("loading", ""))]
    /\ overlapped' =
           [j \in Invocations |->
               IF j = i THEN \E k \in Others(i) : InFlight(k)
               ELSE overlapped[j] \/ InFlight(j)]
    /\ UNCHANGED << stepStatus, thrown, observed, fulfillState, fulfillArgs >>

CallApproveERC20(i, p) ==
    /\ ~NoWallet
    /\ parameters' = [parameters EXCEPT ![i] = p]
    /\ status' = "loading"
    /\ stepStatus' = "approving"
    /\ approveArgs' = [approveArgs EXCEPT ![i] = ApproveERC20Args(p, config)]
    /\ approveState' = [approveState EXCEPT ![i] = "pending"]
    /\ issued' = [issued EXCEPT ![i] = Append(@, "approveERC20")]
    /\ pc' = [pc EXCEPT ![i] = "approveERC20"]
    /\ writes' = [writes EXCEPT ![i] = Append(@, Write("loading", "approving"))]
    /\ overlapped' =
           [j \in Invocations |->
               IF j = i THEN \E k \in Others(i) : InFlight(k)
               ELSE overlapped[j] \/ InFlight(j)]
    /\ UNCHANGED << thrown, observed, fulfillState, fulfillArgs >>

fulfillListing(i, p) ==
    /\ pc[i] = "idle"
    /\ \A j \in Invocations : j < i => pc[j] # "idle"
    /\ \/ NoBurnerWallet(i, p)
       \/ CallApproveERC20(i, p)
    /\ UNCHANGED << arkAccount, config, logged >>

(***************************************************************************)
(* The catch block, lines 56-60: the error is logged, both values become   *)
(* "error" and the async function returns normally.                        *)
(***************************************************************************)
\* a catch block that logs the error and throws it again
CatchRethrows(i, error) ==
    /\ logged' = [logged EXCEPT ![i] = error]
    /\ thrown' = [thrown EXCEPT ![i] = error]
    /\ observed' = [observed EXCEPT ![i] = Pair]
    /\ pc' = [pc EXCEPT ![i] = "threw"]
    /\ UNCHANGED << status, stepStatus, writes >>

\* a catch block that forgets setStepStatus("error")
CatchNoStepStatus(i, error) ==
    /\ logged' = [logged EXCEPT ![i] = error]
    /\ status' = "error"
    /\ UNCHANGED stepStatus
    /\ writes' = [writes EXCEPT ![i] = Append(@, Write("error", ""))]
    /\ observed' = [observed EXCEPT ![i] = << status', stepStatus' >>]
    /\ pc' = [pc EXCEPT ![i] = "returned"]
    /\ UNCHANGED thrown

Catch(i, error) ==
    /\ logged' = [logged EXCEPT ![i] = error]
    /\ status' = "error"
    /\ stepStatus' = "error"
    /\ writes' = [writes EXCEPT ![i] = Append(@, Write("error", "error"))]
    /\ observed' = [observed EXCEPT ![i] = << status', stepStatus' >>]
    /\ pc' = [pc EXCEPT ![i] = "returned"]
    /\ UNCHANGED thrown

\* lines 33, 39-53: approveERC20 resolved; selling, then fulfillListingCore
approveERC20Fulfilled(i) ==
    /\ pc[i] = "approveERC20"
    /\ approveState' = [approveState EXCEPT ![i] = "fulfilled"]
    /\ stepStatus' = "selling"
    /\ fulfillArgs' =
           [fulfillArgs EXCEPT ![i] = FulfillListingCoreArgs(parameters[i], config)]
    /\ fulfillState' = [fulfillState EXCEPT ![i] = "pending"]
    /\ issued' = [issued EXCEPT ![i] = Append(@, "fulfillListingCore")]
    /\ pc' = [pc EXCEPT ![i] = "fulfillListingCore"]
    /\ writes' = [writes EXCEPT ![i] = Append(@, Write("", "selling"))]
    /\ UNCHANGED << status, arkAccount, config, parameters, thrown, approveArgs,
                    logged, observed, overlapped >>

\* a rejected approval that is not caught: the invocation goes on to sell
approveERC20RejectedGoesOn(i) ==
    /\ pc[i] = "approveERC20"
    /\ approveState' = [approveState EXCEPT ![i] = "rejected"]
    /\ stepStatus' = "selling"
    /\ fulfillArgs' =
           [fulfillArgs EXCEPT ![i] = FulfillListingCoreArgs(parameters[i], config)]
    /\ fulfillState' = [fulfillState EXCEPT ![i] = "pending"]
    /\ issued' = [issued EXCEPT ![i] = Append(@, "fulfillListingCore")]
    /\ pc' = [pc EXCEPT ![i] = "fulfillListingCore"]
    /\ writes' = [writes EXCEPT ![i] = Append(@, Write("", "selling"))]
    /\ UNCHANGED << status, arkAccount, config, parameters, thrown, approveArgs,
                    logged, observed, overlapped >>

\* a rejected approval that is tried again
approveERC20RejectedRetries(i) ==
    /\ pc[i] = "approveERC20"
    /\ Len(issued[i]) < 3
    /\ approveState' = [approveState EXCEPT ![i] = "pending"]
    /\ issued' = [issued EXCEPT ![i] = Append(@, "approveERC20")]
    /\ logged' = [logged EXCEPT ![i] = "approveERC20 rejected"]
    /\ UNCHANGED << status, stepStatus, arkAccount, config, pc, parameters,
                    thrown, approveArgs, fulfillState, fulfillArgs, writes,
                    observed, overlapped >>

\* lines 33, 56-60: approveERC20 rejected
approveERC20Rejected(i) ==
    /\ pc[i] = "approveERC20"
    /\ approveState' = [approveState EXCEPT ![i] = "rejected"]
    /\ Catch(i, "approveERC20 rejected")
    /\ UNCHANGED << arkAccount, config, parameters, approveArgs, fulfillState,
                    fulfillArgs, issued, overlapped >>

\* a success block that forgets setStepStatus("sold")
fulfillListingCoreFulfilledNoSold(i) ==
    /\ pc[i] = "fulfillListingCore"
    /\ fulfillState' = [fulfillState EXCEPT ![i] = "fulfilled"]
    /\ status' = "success"
    /\ UNCHANGED stepStatus
    /\ writes' = [writes EXCEPT ![i] = Append(@, Write("success", ""))]
    /\ observed' = [observed EXCEPT ![i] = << status', stepStatus' >>]
    /\ pc' = [pc EXCEPT ![i] = "returned"]
    /\ UNCHANGED << arkAccount, config, parameters, thrown, approveState,
                    approveArgs, fulfillArgs, issued, logged, overlapped >>

\* lines 40, 54-55: fulfillListingCore resolved
fulfillListingCoreFulfilled(i) ==
    /\ pc[i] = "fulfillListingCore"
    /\ fulfillState' = [fulfillState EXCEPT ![i] = "fulfilled"]
    /\ status' = "success"
    /\ stepStatus' = "sold"
    /\ writes' = [writes EXCEPT ![i] = Append(@, Write("success", "sold"))]
    /\ observed' = [observed EXCEPT ![i] = << status', stepStatus' >>]
    /\ pc' = [pc EXCEPT ![i] = "returned"]
    /\ UNCHANGED << arkAccount, config, parameters, thrown, approveState,
                    approveArgs, fulfillArgs, issued, logged, overlapped >>

\* a catch block that revokes the approval after a failed fulfillment
fulfillListingCoreRejectedRevokes(i) ==
    /\ pc[i] = "fulfillListingCore"
    /\ fulfillState' = [fulfillState EXCEPT ![i] = "rejected"]
    /\ Catch(i, "fulfillListingCore rejected")
    /\ issued' = [issued EXCEPT ![i] = Append(@, "approveERC20")]
    /\ UNCHANGED << arkAccount, config, parameters, approveState, approveArgs,
                    fulfillArgs, overlapped >>

\* a failed fulfillment that starts the invocation over, without limit
fulfillListingCoreRejectedStartsOver(i) ==
    /\ pc[i] = "fulfillListingCore"
    /\ fulfillState' = [fulfillState EXCEPT ![i] = "none"]
    /\ approveState' = [approveState EXCEPT ![i] = "pending"]
    /\ status' = "loading"
    /\ stepStatus' = "approving"
    /\ issued' = [issued EXCEPT ![i] = << "approveERC20" >>]
    /\ writes' = [writes EXCEPT ![i] = << Write("loading", "approving") >>]
    /\ logged' = [logged EXCEPT ![i] = "fulfillListingCore rejected"]
    /\ pc' = [pc EXCEPT ![i] = "approveERC20"]
    /\ UNCHANGED << arkAccount, config, parameters, thrown, approveArgs,
                    fulfillArgs, observed, overlapped >>

\* lines 40, 56-60: fulfillListingCore rejected
fulfillListingCoreRejected(i) ==
    /\ pc[i] = "fulfillListingCore"
    /\ fulfillState' = [fulfillState EXCEPT ![i] = "rejected"]
    /\ Catch(i, "fulfillListingCore rejected")
    /\ UNCHANGED << arkAccount, config, parameters, approveState, approveArgs,
                    fulfillArgs, issued, overlapped >>

\* a change of wallet that resets the hook while calls are pending
useBurnerWalletResets ==
    /\ arkAccount' = ~arkAccount
    /\ status' = "idle"
    /\ stepStatus' = "idle"
    /\ UNCHANGED << config, pc, parameters, thrown, approveState, approveArgs,
                    fulfillState, fulfillArgs, issued, logged, writes, observed,
                    overlapped >>

\* line 25: a render in which useBurnerWallet() returns another value
useBurnerWallet ==
    /\ arkAccount' = ~arkAccount
    /\ UNCHANGED << status, stepStatus, config, pc, parameters, thrown,
                    approveState, approveArgs, fulfillState, fulfillArgs, issued,
                    logged, writes, observed, overlapped >>

\* the hook and the deployment script do not share state
Next ==
    \/ \E i \in Invocations : \E p \in Parameters :
           fulfillListing(i, p) /\ UNCHANGED deploy
    \/ \E i \in Invocations : approveERC20Fulfilled(i) /\ UNCHANGED deploy
    \/ \E i \in Invocations : approveERC20Rejected(i) /\ UNCHANGED deploy
    \/ \E i \in Invocations : fulfillListingCoreFulfilled(i) /\ UNCHANGED deploy
    \/ \E i \in Invocations : fulfillListingCoreRejected(i) /\ UNCHANGED deploy
    \/ useBurnerWallet /\ UNCHANGED deploy

Spec == Init /\ [][Next]_vars

(***************************************************************************)
(* The external call an invocation awaits settles: the promise resolves    *)
(* or rejects, and the event loop then runs the rest of the function.      *)
(***************************************************************************)
Settles(i) ==
    /\ \/ approveERC20Fulfilled(i)
       \/ approveERC20Rejected(i)
       \/ fulfillListingCoreFulfilled(i)
       \/ fulfillListingCoreRejected(i)
    /\ UNCHANGED deploy

\* the invocations of the runs checked for termination: no step of an
\* invocation reads its parameters to decide what comes next, so two suffice
FairParameters == {Params(One, Undefined), Params(TwoTo53Plus1, StrkAddress)}

FairNext ==
    \/ \E i \in Invocations : \E p \in FairParameters :
           fulfillListing(i, p) /\ UNCHANGED deploy
    \/ \E i \in Invocations : approveERC20Fulfilled(i) /\ UNCHANGED deploy
    \/ \E i \in Invocations : approveERC20Rejected(i) /\ UNCHANGED deploy
    \/ \E i \in Invocations : fulfillListingCoreFulfilled(i) /\ UNCHANGED deploy
    \/ \E i \in Invocations : fulfillListingCoreRejected(i) /\ UNCHANGED deploy
    \/ useBurnerWallet /\ UNCHANGED deploy

FairSpec ==
    /\ Init
    /\ [][FairNext]_vars
    /\ \A i \in Invocations : WF_vars(Settles(i))

(***************************************************************************)
(* declareDeploy(artifacts_path, account, provider, constructorData) of    *)
(* src/scripts/deployer/contracts/orderbook.js.  The function has no       *)
(* try/catch: whatever one of its steps throws, and a rejection of the     *)
(* awaited account.declareAndDeploy, ends the run and reaches the caller.  *)
(* The steps before the await are synchronous; they are separate actions   *)
(* here so that a failure of each can be told from the others.             *)
(***************************************************************************)
\* line 24: salt: 0x7777
Salt == 30583

ArtifactsPaths == {"./artifacts", "./target/dev", "./missing"}

Providers == {"katana", "devnet", "sequencer"}

\* constructorData.admin: two addresses and a value that is no address
Admins == {"0x1", "0x2", "not-a-felt"}

ContractAddresses == {"0xa11", "0xb22", "0xc33"}

DeployArgs ==
    [ artifacts_path : ArtifactsPaths,
      account : {"account"},
      provider : Providers,
      constructorData : [admin : Admins] ]

\* common.load_artifacts finds the compiled contract in the directory
ArtifactsPresent(path) == path \in {"./artifacts", "./target/dev"}

\* common.load_artifacts(artifacts_path, name): the ABI/bytecode pair
load_artifacts(path, name) ==
    [ sierra |-> [abi |-> Blob(path, name, "abi"),
                  program |-> Blob(path, name, "sierra")],
      casm |-> Blob(path, name, "casm") ]

\* CallData.compile accepts the constructor arguments
Compiles(abi, method, args) == method = "constructor" /\ args.admin \in {"0x1", "0x2"}

\* new sn.CallData(abi).compile(method, args)
compile(abi, method, args) == << args.admin >>

\* lines 20-25: the argument of account.declareAndDeploy
DeclareAndDeployArgs(artifacts, contractConstructor) ==
    [ contract |-> artifacts.sierra,
      casm |-> artifacts.casm,
      constructorCalldata |-> contractConstructor,
      salt |-> Salt ]

\* a handle bound to the class hash of the declare response
ContractAtClassHash(artifacts, deployR, provider) ==
    [ abi |-> artifacts.sierra.abi,
      address |-> deployR.declare.class_hash,
      providerOrAccount |-> provider ]

\* line 27: new sn.Contract(artifacts.sierra.abi, deployR.deploy.contract_address, provider)
Contract(artifacts, deployR, provider) ==
    [ abi |-> artifacts.sierra.abi,
      address |-> deployR.deploy.contract_address,
      providerOrAccount |-> provider ]

\* the run ends with the error thrown to the caller
Throws(step) ==
    deploy' = [deploy EXCEPT !.pc = "threw", !.thrown = step]

\* line 8: the call
declareDeploy(args) ==
    /\ deploy.pc = "idle"
    /\ deploy' = [deploy EXCEPT !.pc = "load_artifacts", !.args = args]

\* lines 9-12
LoadArtifacts ==
    /\ deploy.pc = "load_artifacts"
    /\ IF ArtifactsPresent(deploy.args.artifacts_path)
           THEN deploy' =
                    [deploy EXCEPT
                        !.pc = "compile",
                        !.artifacts =
                            load_artifacts(deploy.args.artifacts_path,
                                           "arkchain_orderbook"),
                        !.steps = Append(@, "load_artifacts")]
           ELSE Throws("load_artifacts")

\* lines 14-17
CompileConstructor ==
    /\ deploy.pc = "compile"
    /\ IF Compiles(deploy.artifacts.sierra.abi, "constructor",
                   deploy.args.constructorData)
           THEN deploy' =
                    [deploy EXCEPT
                        !.pc = "declareAndDeploy",
                        !.contractConstructor =
                            compile(deploy.artifacts.sierra.abi, "constructor",
                                    [admin |-> deploy.args.constructorData.admin]),
                        !.steps = Append(@, "compile")]
           ELSE Throws("compile")

\* lines 20-25: the request is submitted and awaited
DeclareAndDeploy ==
    /\ deploy.pc = "declareAndDeploy"
    /\ deploy' =
           [deploy EXCEPT
               !.pc = "await",
               !.requests =
                   Append(@, DeclareAndDeployArgs(deploy.artifacts,
                                                  deploy.contractConstructor)),
               !.deployState = "pending",
               !.steps = Append(@, "declareAndDeploy")]

\* lines 20, 27: the request resolved with deployR; the handle is returned
DeclareAndDeployFulfilled(deployR) ==
    /\ deploy.pc = "await"
    /\ deploy' =
           [deploy EXCEPT
               !.pc = "returned",
               !.deployState = "fulfilled",
               !.deployR = deployR,
               !.contract = Contract(deploy.artifacts, deployR, deploy.args.provider),
               !.steps = Append(@, "Contract")]

\* a rejected request that is submitted again
DeclareAndDeployRejectedRetries ==
    /\ deploy.pc = "await"
    /\ Len(deploy.requests) < 3
    /\ deploy' =
           [deploy EXCEPT
               !.requests =
                   Append(@, DeclareAndDeployArgs(deploy.artifacts,
                                                  deploy.contractConstructor)),
               !.steps = Append(@, "declareAndDeploy")]

\* a rejected request that is caught: a handle without an address is returned
DeclareAndDeployRejectedReturns ==
    /\ deploy.pc = "await"
    /\ deploy' =
           [deploy EXCEPT
               !.pc = "returned",
               !.deployState = "rejected",
               !.contract = Contract(deploy.artifacts, NoDeployR, deploy.args.provider),
               !.steps = Append(@, "Contract")]

\* line 20: the request rejected
DeclareAndDeployRejected ==
    /\ deploy.pc = "await"
    /\ deploy' =
           [deploy EXCEPT
               !.pc = "threw",
               !.deployState = "rejected",
               !.thrown = "declareAndDeploy"]

DeployResponses ==
    [ declare : [class_hash : {"0xc1a55"}],
      deploy : [contract_address : ContractAddresses] ]

hookVars ==
    << status, stepStatus, arkAccount, config, pc, parameters, thrown,
       approveState, approveArgs, fulfillState, fulfillArgs, issued, logged,
       writes, observed, overlapped >>

\* the script runs on its own: no hook is mounted in its process
DeployInit == Init /\ ~arkAccount /\ ~config.defined

DeployNext ==
    \/ \E args \in DeployArgs : declareDeploy(args) /\ UNCHANGED hookVars
    \/ LoadArtifacts /\ UNCHANGED hookVars
    \/ CompileConstructor /\ UNCHANGED hookVars
    \/ DeclareAndDeploy /\ UNCHANGED hookVars
    \/ \E deployR \in DeployResponses :
           DeclareAndDeployFulfilled(deployR) /\ UNCHANGED hookVars
    \/ DeclareAndDeployRejected /\ UNCHANGED hookVars

DeploySpec == DeployInit /\ [][DeployNext]_vars

(***************************************************************************)
(* The claims.                                                             *)
(***************************************************************************)
Issued(i, call) == \E n \in 1..Len(issued[i]) : issued[i][n] = call

\* C1: an invocation whose approval succeeded and whose fulfillment succeeded
\* completes with status "success" and stepStatus "sold".
C1_SuccessSold ==
    \A i \in Invocations :
        approveState[i] = "fulfilled" /\ fulfillState[i] = "fulfilled"
            => /\ pc[i] = "returned"
               /\ observed[i] = << "success", "sold" >>

C1_Witness ==
    \E i \in Invocations :
        /\ approveState[i] = "fulfilled" /\ fulfillState[i] = "fulfilled"
        /\ pc[i] = "returned"
        /\ status = "success" /\ stepStatus = "sold"

\* C2: an invocation whose approval failed never issues the fulfillment call
\* and ends with status "error" and stepStatus "error".
C2_ApprovalFailed ==
    \A i \in Invocations :
        approveState[i] = "rejected"
            => /\ fulfillState[i] = "none"
               /\ ~Issued(i, "fulfillListingCore")
               /\ pc[i] = "returned"
               /\ observed[i] = << "error", "error" >>

C2_Witness ==
    \E i \in Invocations :
        /\ approveState[i] = "rejected"
        /\ issued[i] = << "approveERC20" >>
        /\ status = "error" /\ stepStatus = "error"

\* C3: an invocation whose fulfillment failed after its approval succeeded
\* ends with status "error" and stepStatus "error" and has issued the approval
\* and the fulfillment and no other call: the approval is left as granted.
C3_FulfillmentFailed ==
    \A i \in Invocations :
        fulfillState[i] = "rejected"
            => /\ approveState[i] = "fulfilled"
               /\ issued[i] = << "approveERC20", "fulfillListingCore" >>
               /\ pc[i] = "returned"
               /\ observed[i] = << "error", "error" >>

C3_Witness ==
    \E i \in Invocations :
        /\ fulfillState[i] = "rejected"
        /\ approveState[i] = "fulfilled"
        /\ status = "error" /\ stepStatus = "error"

\* C4: an invocation made while no burner wallet is present rejects at once
\* with "No burner wallet.", and an invocation that did so has issued neither
\* the approval nor the fulfillment.
C4_NoWallet ==
    [][ \A i \in Invocations :
            /\ pc[i] = "idle" /\ pc'[i] # "idle" /\ ~arkAccount
                   => pc'[i] = "threw" /\ thrown'[i] = "No burner wallet."
            /\ pc'[i] = "threw"
                   => /\ issued'[i] = << >>
                      /\ approveState'[i] = "none"
                      /\ fulfillState'[i] = "none" ]_vars

C4_Witness ==
    \E i \in Invocations :
        /\ pc[i] = "threw"
        /\ thrown[i] = "No burner wallet."
        /\ ~arkAccount

\* the currency addresses the || operator takes for absent
Falsy == { Undefined, Str(""), [t |-> "number", v |-> "0"], [t |-> "bigint", v |-> "0"] }

\* the configured default, undefined when useConfig() returned no configuration
Default == IF config.defined THEN config.starknetContracts.eth ELSE Undefined

\* C5 as stated: with currencyAddress omitted both calls receive the configured
\* default, and with currencyAddress supplied both calls receive the supplied
\* value.
C5_AsStated ==
    \A i \in Invocations :
        LET supplied == parameters[i].currencyAddress
            expected == IF supplied = Undefined
                            THEN config.starknetContracts.eth
                            ELSE supplied
        IN  /\ approveState[i] # "none"
                   => approveArgs[i].currencyAddress = expected
            /\ fulfillState[i] # "none"
                   => fulfillArgs[i].approveInfo.currencyAddress = expected

\* C5, amended: with currencyAddress omitted or falsy (the empty string, 0, 0n)
\* both calls receive the configured default, which is undefined when there is
\* no configuration; with a truthy currencyAddress both calls receive it.
C5_CurrencyDefault ==
    \A i \in Invocations :
        LET supplied == parameters[i].currencyAddress
            expected == IF supplied \in Falsy THEN Default ELSE supplied
        IN  /\ approveState[i] # "none"
                   => approveArgs[i].currencyAddress = expected
            /\ fulfillState[i] # "none"
                   => fulfillArgs[i].approveInfo.currencyAddress = expected

C5_Witness ==
    \E i, j \in Invocations :
        /\ fulfillState[i] # "none" /\ fulfillState[j] # "none"
        /\ parameters[i].currencyAddress = Undefined
        /\ approveArgs[i].currencyAddress = EthAddress
        /\ fulfillArgs[i].approveInfo.currencyAddress = EthAddress
        /\ parameters[j].currencyAddress = StrkAddress
        /\ approveArgs[j].currencyAddress = StrkAddress
        /\ fulfillArgs[j].approveInfo.currencyAddress = StrkAddress

II == << "idle", "idle" >>

LA == << "loading", "approving" >>

LS == << "loading", "selling" >>

SS == << "success", "sold" >>

EE == << "error", "error" >>

\* the path of C6 as stated
StatedPath(a, b) ==
    \/ a = II /\ b = LA
    \/ a = LA /\ b = LS
    \/ a = LS /\ b = SS
    \/ a \in {LA, LS} /\ b = EE

\* C6 as stated: the pair (status, stepStatus) changes only along
\* idle/idle -> loading/approving -> loading/selling -> success/sold, or from
\* loading/approving or loading/selling to error/error.
C6_AsStated == [][Pair' = Pair \/ StatedPath(Pair, Pair')]_vars

\* the path when an invocation may follow an earlier one
FollowingPath(a, b) ==
    \/ a \in {II, SS, EE} /\ b = LA
    \/ a = LA /\ b = LS
    \/ a = LS /\ b = SS
    \/ a \in {LA, LS} /\ b = EE

\* the setter calls of one invocation, in order
OwnWrites ==
    { << >>,
      << Write("loading", "approving") >>,
      << Write("loading", "approving"), Write("", "selling") >>,
      << Write("loading", "approving"), Write("", "selling"),
         Write("success", "sold") >>,
      << Write("loading", "approving"), Write("error", "error") >>,
      << Write("loading", "approving"), Write("", "selling"),
         Write("error", "error") >> }

\* C6, amended: the pair changes only in a step of an invocation.  Each
\* invocation calls the setters in the order loading/approving, then selling,
\* then success/sold, or error/error after loading/approving or after selling.
\* Over an invocation that no other invocation of the hook overlaps the pair
\* follows the path, starting from idle/idle on a fresh hook and from
\* success/sold or error/error after an earlier invocation.  Status becomes
\* "success" only in a step of an invocation that has set approving and then
\* selling.
C6_Path ==
    [][ /\ Pair' # Pair => \E i \in Invocations : pc'[i] # pc[i]
        /\ \A i \in Invocations :
              /\ writes'[i] \in OwnWrites
              /\ pc'[i] # pc[i] /\ pc'[i] # "threw" /\ ~overlapped'[i]
                     => FollowingPath(Pair, Pair')
        /\ status' = "success" /\ status # "success"
               => \E i \in Invocations :
                      /\ pc'[i] # pc[i]
                      /\ writes'[i] = << Write("loading", "approving"),
                                         Write("", "selling"),
                                         Write("success", "sold") >> ]_vars

C6_Witness ==
    /\ pc[1] = "returned" /\ observed[1] = EE
    /\ pc[2] = "returned" /\ ~overlapped[2]
    /\ writes[2] = << Write("loading", "approving"), Write("", "selling"),
                      Write("success", "sold") >>
    /\ Pair = SS

\* C7: in one invocation the fulfillment call is issued only after the
\* approval call has resolved, and the two calls are never pending together.
C7_Sequential ==
    \A i \in Invocations :
        /\ fulfillState[i] # "none" => approveState[i] = "fulfilled"
        /\ ~(approveState[i] = "pending" /\ fulfillState[i] = "pending")
        /\ issued[i] \in { << >>, << "approveERC20" >>,
                           << "approveERC20", "fulfillListingCore" >> }
        /\ approveState[i] = "none" <=> issued[i] = << >>
        /\ fulfillState[i] = "none" <=> Len(issued[i]) < 2

C7_Witness ==
    \E i \in Invocations :
        /\ approveState[i] = "fulfilled"
        /\ fulfillState[i] = "pending"
        /\ issued[i] = << "approveERC20", "fulfillListingCore" >>

\* the amounts are the same number, whatever their JavaScript type
SameNumber(a, b) ==
    /\ a.t \in {"number", "bigint"} /\ b.t \in {"number", "bigint"}
    /\ a.hi = b.hi /\ a.lo = b.lo

\* C8: the currency and the amount passed to the fulfillment call are the
\* currency and the amount passed to the approval call before it.
C8_SameCurrencyAmount ==
    \A i \in Invocations :
        fulfillState[i] # "none"
            => /\ fulfillArgs[i].approveInfo.currencyAddress
                      = approveArgs[i].currencyAddress
               /\ SameNumber(fulfillArgs[i].approveInfo.amount,
                             approveArgs[i].startAmount)

\* C9: a failure of the approval or of the fulfillment is caught: the
\* invocation returns normally, nothing is thrown to its caller, the error is
\* logged and status and stepStatus are "error", whichever call failed.
C9_Caught ==
    \A i \in Invocations :
        approveState[i] = "rejected" \/ fulfillState[i] = "rejected"
            => /\ pc[i] = "returned"
               /\ thrown[i] = ""
               /\ logged[i] # ""
               /\ observed[i] = EE

C9_Witness ==
    \E i, j \in Invocations :
        /\ approveState[i] = "rejected" /\ pc[i] = "returned"
        /\ fulfillState[j] = "rejected" /\ pc[j] = "returned"
        /\ observed[i] = observed[j]
        /\ thrown[i] = "" /\ thrown[j] = ""

\* C10 as stated: while the approval (the fulfillment) of an invocation is
\* pending, status is "loading" and stepStatus is "approving" ("selling").
C10_AsStated ==
    \A i \in Invocations :
        /\ pc[i] = "approveERC20" => Pair = LA
        /\ pc[i] = "fulfillListingCore" => Pair = LS

\* C10, amended: while an external call of an invocation is pending, only
\* the settling of that call ends the wait, and no step other than a step of
\* an invocation changes status or stepStatus; unless another invocation of
\* the same hook has overlapped it, the pair stays loading/approving while the
\* approval is pending and loading/selling while the fulfillment is.
C10_Pending ==
    [][ \A i \in Invocations :
            /\ InFlight(i) /\ (\A j \in Invocations : pc'[j] = pc[j])
                   => /\ Pair' = Pair
                      /\ approveState'[i] = approveState[i]
                      /\ fulfillState'[i] = fulfillState[i]
            /\ pc[i] = "approveERC20" /\ pc'[i] # pc[i]
                   => approveState'[i] \in {"fulfilled", "rejected"}
            /\ pc[i] = "fulfillListingCore" /\ pc'[i] # pc[i]
                   => fulfillState'[i] \in {"fulfilled", "rejected"}
            /\ pc'[i] = "approveERC20" /\ ~overlapped'[i] => Pair' = LA
            /\ pc'[i] = "fulfillListingCore" /\ ~overlapped'[i] => Pair' = LS
      ]_vars

C10_Witness ==
    \E i \in Invocations :
        /\ pc[i] = "fulfillListingCore"
        /\ fulfillState[i] = "pending"
        /\ ~overlapped[i]
        /\ \E j \in Invocations : pc[j] = "returned"
        /\ Pair = LS

\* the number of times an invocation issued an external call
Count(i, call) == Cardinality({n \in 1..Len(issued[i]) : issued[i][n] = call})

\* C13: an invocation issues the approval call at most once and the
\* fulfillment call at most once; an invocation one of whose calls failed has
\* returned, with the failed call issued once.
C13_NoRetry ==
    \A i \in Invocations :
        /\ Count(i, "approveERC20") <= 1
        /\ Count(i, "fulfillListingCore") <= 1
        /\ approveState[i] = "rejected"
               => pc[i] = "returned" /\ Count(i, "approveERC20") = 1
        /\ fulfillState[i] = "rejected"
               => pc[i] = "returned" /\ Count(i, "fulfillListingCore") = 1

C13_Witness ==
    \E i, j \in Invocations :
        /\ approveState[i] = "rejected" /\ Count(i, "approveERC20") = 1
        /\ fulfillState[j] = "rejected" /\ Count(j, "fulfillListingCore") = 1
        /\ Count(j, "approveERC20") = 1

\* C14 as stated: in every reachable state the pair (status, stepStatus) is
\* idle/idle, loading/approving, loading/selling, success/sold or error/error.
C14_AsStated == Pair \in {II, LA, LS, SS, EE}

\* C14, amended: the pair is one of the five, or success/selling or
\* error/selling, which occur only when an invocation has been overlapped by
\* another one: the approval of one resolves after the other has ended.
C14_Pairs ==
    /\ Pair \in {II, LA, LS, SS, EE, << "success", "selling" >>,
                 << "error", "selling" >>}
    /\ Pair \notin {II, LA, LS, SS, EE}
           => \E i \in Invocations :
                  overlapped[i] /\ pc[i] = "fulfillListingCore"
    /\ (\A i \in Invocations : ~overlapped[i]) => Pair \in {II, LA, LS, SS, EE}

C14_Witness ==
    /\ Pair = << "success", "selling" >>
    /\ \E i, j \in Invocations :
           /\ pc[i] = "returned" /\ observed[i] = SS
           /\ pc[j] = "fulfillListingCore" /\ overlapped[j]

\* C15: an invocation that fails for want of a burner wallet leaves status
\* and stepStatus as they were: in the step in which it throws neither
\* changes, and it has called no setter.
C15_NoWalletFrame ==
    [][ \A i \in Invocations :
            pc[i] = "idle" /\ pc'[i] = "threw"
                => /\ status' = status
                   /\ stepStatus' = stepStatus
                   /\ observed'[i] = Pair
                   /\ writes'[i] = << >> ]_vars

C15_Witness ==
    \E i \in Invocations :
        /\ pc[i] = "threw"
        /\ observed[i] = II
        /\ Pair = II
        /\ \A j \in Invocations : writes[j] = << >>

\* C16: when every external call that is issued settles, every invocation
\* made with a burner wallet ends, having set success/sold or error/error, and
\* status does not stay "loading" for ever.
C16_Completes ==
    /\ \A i \in Invocations :
           InFlight(i) ~> (pc[i] = "returned" /\ observed[i] \in {SS, EE})
    /\ (status = "loading") ~> (status # "loading")

C16_Witness ==
    \E i, j \in Invocations :
        /\ pc[i] = "returned" /\ observed[i] = SS /\ overlapped[i]
        /\ pc[j] = "returned" /\ observed[j] = EE
        /\ status # "loading"

\* C11: when declareDeploy returns, the handle it returns is bound to the
\* contract address of the deploy response, to the ABI of the arkchain_orderbook
\* artifact loaded from artifacts_path, and to the provider passed in.
C11_HandleBound ==
    deploy.pc = "returned"
        => /\ deploy.deployState = "fulfilled"
           /\ deploy.deployR \in DeployResponses
           /\ deploy.contract.address = deploy.deployR.deploy.contract_address
           /\ deploy.contract.abi
                  = Blob(deploy.args.artifacts_path, "arkchain_orderbook", "abi")
           /\ deploy.contract.abi = deploy.artifacts.sierra.abi
           /\ deploy.contract.providerOrAccount = deploy.args.provider

C11_Witness ==
    /\ deploy.pc = "returned"
    /\ deploy.args.provider = "sequencer"
    /\ deploy.args.artifacts_path = "./target/dev"
    /\ deploy.contract.address = "0xb22"

\* C12: a run submits the declare-and-deploy request at most once, never
\* again whatever the outcome, with salt 0x7777 and with the loaded artifacts
\* and the compiled calldata, after the artifacts were loaded and the calldata
\* compiled; a run that reached the submission has submitted exactly one.
C12_OneRequest ==
    /\ Len(deploy.requests) <= 1
    /\ Len(deploy.requests) = 1
           => /\ deploy.requests[1].salt = 30583
              /\ SubSeq(deploy.steps, 1, 3)
                     = << "load_artifacts", "compile", "declareAndDeploy" >>
              /\ deploy.requests[1].contract = deploy.artifacts.sierra
              /\ deploy.requests[1].casm = deploy.artifacts.casm
              /\ deploy.artifacts
                     = load_artifacts(deploy.args.artifacts_path, "arkchain_orderbook")
              /\ deploy.requests[1].constructorCalldata
                     = << deploy.args.constructorData.admin >>
    /\ deploy.deployState # "none" <=> Len(deploy.requests) = 1
    /\ deploy.pc \in {"await", "returned"} => Len(deploy.requests) = 1

C12_Witness ==
    /\ deploy.pc = "returned"
    /\ Len(deploy.requests) = 1
    /\ deploy.requests[1].salt = 30583
    /\ deploy.requests[1].constructorCalldata = << "0x2" >>

\* C17: a step of declareDeploy that fails ends the run with the failure
\* thrown to the caller: the steps after it are not executed and no handle is
\* returned; a handle exists only after a fulfilled deploy response.
C17_FailurePropagates ==
    /\ deploy.pc = "threw"
           => /\ deploy.contract = NoContract
              /\ \/ /\ deploy.thrown = "load_artifacts"
                    /\ deploy.steps = << >>
                    /\ deploy.requests = << >>
                 \/ /\ deploy.thrown = "compile"
                    /\ deploy.steps = << "load_artifacts" >>
                    /\ deploy.requests = << >>
                 \/ /\ deploy.thrown = "declareAndDeploy"
                    /\ deploy.steps
                           = << "load_artifacts", "compile", "declareAndDeploy" >>
                    /\ deploy.deployState = "rejected"
    /\ deploy.deployState = "rejected"
           => deploy.pc = "threw" /\ deploy.thrown = "declareAndDeploy"
    /\ deploy.args.artifacts_path = "./missing"
           => deploy.pc \in {"load_artifacts", "threw"} /\ deploy.steps = << >>
    /\ deploy.args.constructorData.admin = "not-a-felt"
           => /\ deploy.pc \in {"load_artifacts", "compile", "threw"}
              /\ deploy.requests = << >>
    /\ deploy.contract # NoContract
           => deploy.pc = "returned" /\ deploy.deployState = "fulfilled"

C17_Witness ==
    /\ deploy.pc = "threw"
    /\ deploy.thrown = "declareAndDeploy"
    /\ deploy.deployState = "rejected"
    /\ deploy.contract = NoContract

=============================================================================
